---- MODULE Spec2Model ----
(***************************************************************************)
(* A model of the notebook intermediate-ml.ipynb: the Titanic table is     *)
(* loaded, split into train and test rows, a preprocessing + decision-tree *)
(* pipeline is fitted and scored, and the pipeline is cross-validated and  *)
(* tuned by an exhaustive and by a randomized hyperparameter search.       *)
(*                                                                         *)
(* Every cell of the notebook is a call into pandas / scikit-learn.  A     *)
(* call is modelled by what it does to the notebook's variables, with the  *)
(* parameters the cell passes.  Values the library derives from data the   *)
(* model does not hold (the permutation drawn by RandomState(42), the      *)
(* accuracy of a fitted tree on a fold) are inputs chosen from bounded     *)
(* sets.                                                                   *)
(***************************************************************************)
EXTENDS Integers, Sequences, FiniteSets, TLC

VARIABLES
    \* ---- cells 2-3: the table and its split
    titanic,        \* the loaded table: a sequence of rows, <<>> before the load
    titanic_X,      \* the table without the column "survived"
    titanic_y,      \* the column "survived", with the table's index
    X_train, X_test, y_train, y_test,
    splitPc,        \* "load" | "drop" | "split" | "done" | "error"
    \* ---- cells 11-12: the unbalanced target and the constant prediction
    y, y_pred,
    accuracy,       \* accuracy_score(y, y_pred) as the fraction [num, den]
    metPc,          \* "y" | "pred" | "score" | "done"
    \* ---- cells 5-7: the pipeline
    predictor,      \* [params, fitted, state]: state holds what fit learned
    y_test_pred,    \* predictor.predict(X_test)
    scores,         \* the scores printed so far, by label
    calls,          \* the pipeline calls made so far: [op, prep, X, Xt]
    pipePc,         \* "construct" | "fit" | "score_train" | "predict" | "score_test" | "done" | "error"
    \* ---- cells 6-7, 28, 31-35: which rows each estimator is fitted and scored on
    evals,          \* the evaluations so far: [what, fold, fit, score], fit and score sets of rows
    cvPc,           \* "fit" | "score_train" | "cross_val" | "search" | "score_test" | "done" | "error"
    \* ---- cells 28, 31-35: cross-validation and the two searches
    estimator,      \* the estimator the running cross-validation step has fitted
    cv_scores,      \* the array cross_val_score builds
    parameters,     \* the search space of cell 31, then of cell 34
    clf,            \* the search object: [kind, candidates, results, fitted, best_*]
    samples,        \* the settings sampled by each run of the randomized search
    np_random,      \* the state of numpy's global generator
    scoreSeed,      \* selects the table of fold and test scores the data give
    searchPc,       \* "construct" | "fit" | "cross_val" | "grid" | "random" | "candidates"
                    \* | "evaluate" | "refit" | "print" | "done"
    \* ---- the run of the notebook, statement by statement
    nextStep,       \* the statement the kernel executes next
    running,        \* the statements in execution
    started,        \* the statements whose execution has begun
    produced,       \* the statements that have returned a result
    bound,          \* name -> the statement whose result the name holds, 0: unbound
    attempts,       \* statement -> how many times it has been started
    raised          \* [step, error]: the statement that raised and what, step 0: none

splitVars == <<titanic, titanic_X, titanic_y, X_train, X_test, y_train, y_test, splitPc>>
metVars == <<y, y_pred, accuracy, metPc>>
pipeVars == <<predictor, y_test_pred, scores, calls, pipePc>>
cvVars == <<evals, cvPc>>
searchVars == <<estimator, cv_scores, parameters, clf, samples, np_random, scoreSeed, searchPc>>

runVars == <<nextStep, running, started, produced, bound, attempts, raised>>

vars == <<splitVars, metVars, pipeVars, cvVars, searchVars, runVars>>

----------------------------------------------------------------------------
(* Bounds of the model. *)
MaxRows == 5        \* rows of the loaded table
MaxLen == 6         \* length of a target array other than the notebook's
MaxTable == 14      \* rows of the cross-validated table

----------------------------------------------------------------------------
(* Helpers on sequences and sets. *)

Range(s) == {s[i] : i \in DOMAIN s}

Perms(n) == {p \in [1..n -> 1..n] : \A i, j \in 1..n : p[i] = p[j] => i = j}

RECURSIVE SumSeq(_)
SumSeq(s) == IF s = <<>> THEN 0 ELSE Head(s) + SumSeq(Tail(s))

\* a missing value: of a text column, of a number column
NA == "NA"
NaN == -1
Missing(c) == IF c = "age" THEN NaN ELSE NA

----------------------------------------------------------------------------
(* The table.  Row i of the file is passenger i; the index column          *)
(* (index_col=0) travels with every row of every table derived from it.    *)

PClassOf(i) == CASE i % 4 = 1 -> "1st" [] i % 4 = 2 -> "3rd" [] i % 4 = 3 -> "2nd" [] OTHER -> "3rd"
SexOf(i) == IF i % 5 = 0 THEN NA ELSE IF i % 3 = 1 THEN "female" ELSE "male"
AgeOf(i) == IF i % 2 = 0 THEN NaN ELSE 20 + ((i * 7) % 5) * 10

Passenger(i, s) ==
    [row |-> i, pclass |-> PClassOf(i), sex |-> SexOf(i), age |-> AgeOf(i),
     name |-> i, survived |-> s]

\* titanic.drop("survived", axis=1)
DropSurvived(t) ==
    [i \in DOMAIN t |->
        [row |-> t[i].row, pclass |-> t[i].pclass, sex |-> t[i].sex,
         age |-> t[i].age, name |-> t[i].name]]

\* titanic["survived"]
ColSurvived(t) == [i \in DOMAIN t |-> [row |-> t[i].row, survived |-> t[i].survived]]

----------------------------------------------------------------------------
(* train_test_split(titanic_X, titanic_y, test_size=0.2, random_state=42)  *)

TestSizePct == 20

\* n_test = ceil(test_size * n_samples), n_train = n_samples - n_test
NTest(n) == (n * TestSizePct + 99) \div 100
NTrain(n) == n - NTest(n)

\* a[indices]: positional indexing, the row keeps its index label
Take(a, idx) == [i \in DOMAIN idx |-> a[idx[i]]]

\* ShuffleSplit: the first n_test entries of the permutation are the test rows,
\* the following n_train entries the train rows
TestIdx(n, perm) == SubSeq(perm, 1, NTest(n))
TrainIdx(n, perm) == SubSeq(perm, NTest(n) + 1, n)

TrainTestSplitMisaligned(X, Y, perm) ==
    LET n == Len(X)
        rev == [i \in 1..n |-> perm[n + 1 - i]]
    IN [X_train |-> Take(X, TrainIdx(n, perm)), X_test |-> Take(X, TestIdx(n, perm)),
        y_train |-> Take(Y, TrainIdx(n, rev)), y_test |-> Take(Y, TestIdx(n, rev))]

\* one pair of index arrays is computed and applied to every array passed
TrainTestSplit(X, Y, perm) ==
    LET n == Len(X)
    IN [X_train |-> Take(X, TrainIdx(n, perm)), X_test |-> Take(X, TestIdx(n, perm)),
        y_train |-> Take(Y, TrainIdx(n, perm)), y_test |-> Take(Y, TestIdx(n, perm))]

----------------------------------------------------------------------------
(* Cells 2 and 3 as a state machine. *)

IdleSplit ==
    /\ titanic = <<>> /\ titanic_X = <<>> /\ titanic_y = <<>>
    /\ X_train = <<>> /\ X_test = <<>> /\ y_train = <<>> /\ y_test = <<>>
    /\ splitPc = "load"

IdleMetrics == y = <<>> /\ y_pred = <<>> /\ accuracy = [num |-> 0, den |-> 0] /\ metPc = "y"

None == "None"

IdlePipe ==
    /\ predictor = None /\ y_test_pred = <<>> /\ scores = <<>> /\ calls = <<>>
    /\ pipePc = "construct"

IdleCV == evals = <<>> /\ cvPc = "fit"

\* clf before cell 31 binds it
Unbound ==
    [kind |-> "unbound", candidates |-> <<>>, results |-> <<>>, fitted |-> FALSE,
     best_index |-> 0, best_params |-> None, best_estimator |-> None]

IdleSearch ==
    /\ estimator = None /\ cv_scores = <<>> /\ parameters = None /\ clf = Unbound
    /\ samples = <<>> /\ np_random = 0 /\ scoreSeed = 0 /\ searchPc = "construct"

\* The statements of the notebook in the order of the file: what each reads, what it
\* binds, which attribute its rebinding of clf drops, and what its call can raise.
St(name, phase, needs, binds, unbinds, raises) ==
    [name |-> name, phase |-> phase, needs |-> needs, binds |-> binds,
     unbinds |-> unbinds, raises |-> raises]

Steps ==
    << St("read_csv", "load", {}, {"titanic"}, {},
          {"URLError", "HTTPError", "ParserError"}),
       St("head", "load", {"titanic"}, {}, {}, {"AttributeError"}),
       St("drop", "split", {"titanic"}, {"titanic_X"}, {}, {"KeyError"}),
       St("survived", "split", {"titanic"}, {"titanic_y"}, {}, {"KeyError"}),
       St("train_test_split", "split", {"titanic_X", "titanic_y"},
          {"X_train", "X_test", "y_train", "y_test"}, {}, {"ValueError"}),
       St("Pipeline", "construct", {}, {"predictor"}, {}, {"TypeError"}),
       St("predictor.fit", "fit", {"predictor", "X_train", "y_train"}, {"predictor.fitted"}, {},
          {"ValueError", "KeyError"}),
       St("train_score", "evaluate", {"predictor.fitted", "X_train", "y_train"}, {}, {},
          {"ValueError", "NotFittedError"}),
       St("predict", "evaluate", {"predictor.fitted", "X_test"}, {"y_test_pred"}, {},
          {"ValueError", "NotFittedError"}),
       St("y", "evaluate", {}, {"y"}, {}, {"MemoryError"}),
       St("y_pred", "evaluate", {}, {"y_pred"}, {}, {"MemoryError"}),
       St("accuracy_score", "evaluate", {"y", "y_pred"}, {}, {}, {"ValueError"}),
       St("confusion_matrix", "evaluate", {"y", "y_pred"}, {"conf_matrix"}, {}, {"ValueError"}),
       St("ConfusionMatrixDisplay", "evaluate", {"conf_matrix"}, {"disp"}, {},
          {"ImportError", "RuntimeError"}),
       St("balanced_accuracy_score", "evaluate", {"y", "y_pred"}, {}, {}, {"ValueError"}),
       St("precision_score", "evaluate", {"y", "y_pred"}, {}, {}, {"ValueError"}),
       St("recall_score", "evaluate", {"y", "y_pred"}, {}, {}, {"ValueError"}),
       St("cross_val_score", "evaluate", {"predictor", "X_train", "y_train"}, {}, {},
          {"ValueError", "KeyError"}),
       St("grid_parameters", "search", {}, {"parameters"}, {}, {"MemoryError"}),
       St("GridSearchCV", "search", {"predictor", "parameters"}, {"clf"}, {"clf.best_estimator_"},
          {"TypeError"}),
       St("grid_fit", "search", {"clf", "X_train", "y_train"}, {"clf.best_estimator_"}, {},
          {"ValueError", "KeyError"}),
       St("grid_best_estimator_", "search", {"clf.best_estimator_"}, {}, {}, {"AttributeError"}),
       St("grid_original_score", "search", {"predictor.fitted", "X_test", "y_test"}, {}, {},
          {"ValueError"}),
       St("grid_best_score", "search", {"clf.best_estimator_", "X_test", "y_test"}, {}, {},
          {"ValueError", "AttributeError"}),
       St("random_parameters", "search", {}, {"parameters"}, {}, {"MemoryError"}),
       St("RandomizedSearchCV", "search", {"predictor", "parameters"}, {"clf"},
          {"clf.best_estimator_"}, {"TypeError"}),
       St("random_fit", "search", {"clf", "X_train", "y_train"}, {"clf.best_estimator_"}, {},
          {"ValueError", "KeyError"}),
       St("random_best_estimator_", "search", {"clf.best_estimator_"}, {}, {}, {"AttributeError"}),
       St("random_original_score", "search", {"predictor.fitted", "X_test", "y_test"}, {}, {},
          {"ValueError"}),
       St("random_best_score", "search", {"clf.best_estimator_", "X_test", "y_test"}, {}, {},
          {"ValueError", "AttributeError"}) >>

NSteps == Len(Steps)

Names == UNION {Steps[s].needs \cup Steps[s].binds \cup Steps[s].unbinds : s \in 1..NSteps}

NoRaise == [step |-> 0, error |-> "none"]

IdleRun ==
    /\ nextStep = 1 /\ running = {} /\ started = {} /\ produced = {}
    /\ bound = [n \in Names |-> 0]
    /\ attempts = [s \in 1..NSteps |-> 0]
    /\ raised = NoRaise

InitSplit == IdleSplit /\ IdleMetrics /\ IdlePipe /\ IdleCV /\ IdleSearch /\ IdleRun

\* pandas.read_csv(url, index_col=0): the file's rows, whatever they are
ReadCsv ==
    /\ splitPc = "load"
    /\ \E n \in 1..MaxRows : \E s \in [1..n -> {0, 1}] :
          titanic' = [i \in 1..n |-> Passenger(i, s[i])]
    /\ splitPc' = "drop"
    /\ UNCHANGED <<titanic_X, titanic_y, X_train, X_test, y_train, y_test>>

DropLabel ==
    /\ splitPc = "drop"
    /\ titanic_X' = DropSurvived(titanic)
    /\ titanic_y' = ColSurvived(titanic)
    /\ splitPc' = "split"
    /\ UNCHANGED <<titanic, X_train, X_test, y_train, y_test>>

Split ==
    /\ splitPc = "split"
    /\ NTrain(Len(titanic_X)) > 0
    /\ \E perm \in Perms(Len(titanic_X)) :
          LET r == TrainTestSplit(titanic_X, titanic_y, perm)
          IN /\ X_train' = r.X_train /\ X_test' = r.X_test
             /\ y_train' = r.y_train /\ y_test' = r.y_test
    /\ splitPc' = "done"
    /\ UNCHANGED <<titanic, titanic_X, titanic_y>>

\* "the resulting train set will be empty": ValueError, nothing is bound
SplitRaises ==
    /\ splitPc = "split"
    /\ NTrain(Len(titanic_X)) = 0
    /\ splitPc' = "error"
    /\ UNCHANGED <<titanic, titanic_X, titanic_y, X_train, X_test, y_train, y_test>>

NextSplit ==
    \/ ReadCsv /\ UNCHANGED <<metVars, pipeVars, cvVars, searchVars, runVars>>
    \/ DropLabel /\ UNCHANGED <<metVars, pipeVars, cvVars, searchVars, runVars>>
    \/ Split /\ UNCHANGED <<metVars, pipeVars, cvVars, searchVars, runVars>>
    \/ SplitRaises /\ UNCHANGED <<metVars, pipeVars, cvVars, searchVars, runVars>>

SpecSplit == InitSplit /\ [][NextSplit]_vars

----------------------------------------------------------------------------
RowsOf(t) == {t[i].row : i \in DOMAIN t}

\* C1: after the split, features and label are row-aligned position by position in
\* the train and in the test tables, each pair carries the values of that row of the
\* loaded table, and the train rows and the test rows are disjoint, without repeats,
\* and together exactly the rows of the table.
C1_RowAligned ==
    splitPc = "done" =>
        /\ Len(X_train) = Len(y_train) /\ Len(X_test) = Len(y_test)
        /\ \A i \in DOMAIN X_train :
              /\ X_train[i].row = y_train[i].row
              /\ \E k \in DOMAIN titanic :
                    /\ titanic[k].row = X_train[i].row
                    /\ titanic[k].name = X_train[i].name
                    /\ titanic[k].survived = y_train[i].survived
        /\ \A i \in DOMAIN X_test :
              /\ X_test[i].row = y_test[i].row
              /\ \E k \in DOMAIN titanic :
                    /\ titanic[k].row = X_test[i].row
                    /\ titanic[k].name = X_test[i].name
                    /\ titanic[k].survived = y_test[i].survived
        /\ RowsOf(X_train) \cap RowsOf(X_test) = {}
        /\ RowsOf(X_train) \cup RowsOf(X_test) = RowsOf(titanic)
        /\ Len(X_train) + Len(X_test) = Len(titanic)
        /\ Cardinality(RowsOf(X_train)) = Len(X_train)
        /\ Cardinality(RowsOf(X_test)) = Len(X_test)

C1_Witness ==
    /\ splitPc = "done"
    /\ Len(X_train) >= 3 /\ Len(X_test) >= 1
    /\ X_train[1].row # 1
    /\ \E i, j \in DOMAIN y_train : y_train[i].survived # y_train[j].survived

----------------------------------------------------------------------------
(* Cells 11 and 12: accuracy_score on an unbalanced target. *)

NOnes == 95
NZeros == 5
NPred == 100

Const(c, n) == [i \in 1..n |-> c]

\* numpy.array(([1] * 95) + ([0] * 5))
NotebookY == Const(1, NOnes) \o Const(0, NZeros)

BinarySeqs(n) == UNION {[1..k -> {0, 1}] : k \in 1..n}

AccuracyCountingErrors(yt, yp) ==
    [num |-> Cardinality({i \in DOMAIN yt : yt[i] # yp[i]}), den |-> Len(yt)]

\* accuracy_score(y_true, y_pred): the mean of the indicator y_pred[i] == y_true[i]
AccuracyScore(yt, yp) ==
    [num |-> Cardinality({i \in DOMAIN yt : yt[i] = yp[i]}), den |-> Len(yt)]

MakeY ==
    /\ metPc = "y"
    /\ y' \in BinarySeqs(MaxLen) \cup {NotebookY}
    /\ metPc' = "pred"
    /\ UNCHANGED <<y_pred, accuracy>>

\* numpy.ones(100) in the notebook; in general a prediction of one class for every sample
MakePred ==
    /\ metPc = "pred"
    /\ \/ y = NotebookY /\ y_pred' = Const(1, NPred)
       \/ y # NotebookY /\ \E c \in {0, 1} : y_pred' = Const(c, Len(y))
    /\ metPc' = "score"
    /\ UNCHANGED <<y, accuracy>>

Accuracy ==
    /\ metPc = "score"
    /\ accuracy' = AccuracyScore(y, y_pred)
    /\ metPc' = "done"
    /\ UNCHANGED <<y, y_pred>>

InitMetrics == IdleSplit /\ IdleMetrics /\ IdlePipe /\ IdleCV /\ IdleSearch /\ IdleRun

NextMetrics ==
    \/ MakeY /\ UNCHANGED <<splitVars, pipeVars, cvVars, searchVars, runVars>>
    \/ MakePred /\ UNCHANGED <<splitVars, pipeVars, cvVars, searchVars, runVars>>
    \/ Accuracy /\ UNCHANGED <<splitVars, pipeVars, cvVars, searchVars, runVars>>

SpecMetrics == InitMetrics /\ [][NextMetrics]_vars

RECURSIVE CountOf(_, _)
CountOf(c, s) == IF s = <<>> THEN 0 ELSE (IF Head(s) = c THEN 1 ELSE 0) + CountOf(c, Tail(s))

\* C7: the accuracy of a constant prediction is the number of samples of the predicted
\* class over the number of samples, and on the target of 95 ones and 5 zeros the
\* all-ones prediction scores exactly 95/100.
C7_ConstantAccuracy ==
    metPc = "done" =>
        /\ accuracy.den = Len(y)
        /\ accuracy.num = CountOf(y_pred[1], y)
        /\ (y = NotebookY => accuracy = [num |-> 95, den |-> 100])

C7_Witness == metPc = "done" /\ y = NotebookY /\ accuracy.num = 95

----------------------------------------------------------------------------
(* Cell 5: the pipeline.                                                   *)
(*   preprocessing: ColumnTransformer, remainder="drop"                    *)
(*     cat = [pclass, sex]: SimpleImputer(most_frequent), then             *)
(*                          OneHotEncoder(drop="first")                    *)
(*     num = [age]:         SimpleImputer(strategy)                        *)
(*   predictor: DecisionTreeClassifier(criterion, max_depth,               *)
(*                                     min_samples_leaf)                   *)

MaxDepth == 3
MinSamplesLeaf == 5

DefaultParams ==
    [strategy |-> "mean", criterion |-> "entropy", max_depth |-> MaxDepth,
     min_samples_leaf |-> MinSamplesLeaf]

\* the sort order of the categorical values
Rank(v) ==
    CASE v = "1st" -> 1 [] v = "2nd" -> 2 [] v = "3rd" -> 3
      [] v = "female" -> 1 [] v = "male" -> 2

RECURSIVE Gcd(_, _)
Gcd(a, b) == IF b = 0 THEN a ELSE Gcd(b, a % b)

Frac(n, d) == [num |-> n \div Gcd(n, d), den |-> d \div Gcd(n, d)]

Observed(X, c) == {i \in DOMAIN X : X[i][c] # Missing(c)}

\* SimpleImputer(strategy="most_frequent").fit: the mode of the observed values,
\* the smallest one among several
MostFrequent(X, c) ==
    LET obs == Observed(X, c)
        cnt(v) == Cardinality({i \in obs : X[i][c] = v})
        vals == {X[i][c] : i \in obs}
        top == {v \in vals : \A w \in vals : cnt(w) <= cnt(v)}
    IN CHOOSE v \in top : \A w \in top : Rank(v) <= Rank(w)

RECURSIVE SumOver(_, _, _)
SumOver(X, c, I) ==
    IF I = {} THEN 0
    ELSE LET i == CHOOSE k \in I : TRUE IN X[i][c] + SumOver(X, c, I \ {i})

\* SimpleImputer(strategy="mean").fit: the mean of the observed values
Mean(X, c) == Frac(SumOver(X, c, Observed(X, c)), Cardinality(Observed(X, c)))

Impute(v, fill) == IF v = NA THEN fill ELSE v

RECURSIVE SortedSeq(_)
SortedSeq(S) ==
    IF S = {} THEN <<>>
    ELSE LET m == CHOOSE v \in S : \A w \in S : Rank(v) <= Rank(w)
         IN <<m>> \o SortedSeq(S \ {m})

\* OneHotEncoder.fit on the imputed column: its sorted distinct values
Categories(X, c, fill) == SortedSeq({Impute(X[i][c], fill) : i \in DOMAIN X})

\* OneHotEncoder(drop="first").transform of one value: one indicator per category
\* but the first
OneHot(v, cats) == [j \in 1..(Len(cats) - 1) |-> IF v = cats[j + 1] THEN 1 ELSE 0]

\* ColumnTransformer.fit: what each transformer learns, each from its own columns
FitPrep(X) ==
    LET fp == MostFrequent(X, "pclass")
        fs == MostFrequent(X, "sex")
    IN [fill_pclass |-> fp, fill_sex |-> fs,
        cat_pclass |-> Categories(X, "pclass", fp),
        cat_sex |-> Categories(X, "sex", fs),
        fill_age |-> Mean(X, "age")]

\* handle_unknown="error": a value that is none of the fitted categories raises
HasUnknown(prep, X) ==
    \E i \in DOMAIN X :
        \/ Impute(X[i].pclass, prep.fill_pclass) \notin Range(prep.cat_pclass)
        \/ Impute(X[i].sex, prep.fill_sex) \notin Range(prep.cat_sex)

\* ColumnTransformer.transform: the cat block, then the num block; every other
\* column is dropped
Transform(prep, X) ==
    [i \in DOMAIN X |->
        [row |-> X[i].row,
         feats |-> OneHot(Impute(X[i].pclass, prep.fill_pclass), prep.cat_pclass)
                   \o OneHot(Impute(X[i].sex, prep.fill_sex), prep.cat_sex)
                   \o <<IF X[i].age = NaN THEN prep.fill_age ELSE Frac(X[i].age, 1)>>]]

Labels(Y) == [i \in DOMAIN Y |-> Y[i].survived]

\* DecisionTreeClassifier.fit.  A node is split only into children of at least
\* min_samples_leaf samples each, so on fewer than 2 * min_samples_leaf rows the
\* induced tree is its root: a leaf holding the class counts.  The tables of this
\* model are below that size.
TreeFit(params, Xt, Y) ==
    [params |-> [criterion |-> params.criterion, max_depth |-> params.max_depth,
                 min_samples_leaf |-> params.min_samples_leaf],
     n_features |-> Len(Xt[1].feats),
     value |-> [c \in {0, 1} |-> CountOf(c, Labels(Y))]]

\* DecisionTreeClassifier.predict: the class with the largest count in the leaf,
\* the first one on a tie
TreePredict(tree, x) == IF tree.value[1] > tree.value[0] THEN 1 ELSE 0

\* Pipeline.fit(X, y): fit_transform of the preprocessing, then fit of the tree on
\* the transformed table
PipelineFit(est, X, Y) ==
    LET prep == FitPrep(X)
    IN [params |-> est.params, fitted |-> TRUE,
        state |-> [prep |-> prep, tree |-> TreeFit(est.params, Transform(prep, X), Y)]]

PipelinePredictRefitting(est, X) ==
    LET prep == [est.state.prep EXCEPT
                    !.fill_age = IF Observed(X, "age") = {} THEN Frac(0, 1) ELSE Mean(X, "age")]
        Xt == Transform(prep, X)
    IN [est |-> [est EXCEPT !.state.prep = prep],
        call |-> [prep |-> prep, X |-> X, Xt |-> Xt],
        pred |-> [i \in DOMAIN X |-> TreePredict(est.state.tree, Xt[i])]]

\* Pipeline.predict(X): transform with what fit learned, then predict of the tree;
\* the estimator is read, not written
PipelinePredict(est, X) ==
    LET prep == est.state.prep
        Xt == Transform(prep, X)
    IN [est |-> est,
        call |-> [prep |-> prep, X |-> X, Xt |-> Xt],
        pred |-> [i \in DOMAIN X |-> TreePredict(est.state.tree, Xt[i])]]

\* Pipeline.score(X, y): accuracy_score(y, predict(X))
PipelineScore(est, X, Y) ==
    LET r == PipelinePredict(est, X)
    IN [est |-> r.est, call |-> r.call, score |-> AccuracyScore(Labels(Y), r.pred)]

----------------------------------------------------------------------------
(* Cells 5 to 7, and the "Original test score" of cell 32. *)

Construct ==
    /\ pipePc = "construct"
    /\ predictor' = [params |-> DefaultParams, fitted |-> FALSE, state |-> None]
    /\ pipePc' = "fit"
    /\ UNCHANGED <<y_test_pred, scores, calls>>

\* predictor.fit(X_train, y_train)
Fit ==
    /\ pipePc = "fit"
    /\ predictor' = PipelineFit(predictor, X_train, y_train)
    /\ calls' = Append(calls, [op |-> "fit", prep |-> predictor'.state.prep, X |-> X_train,
                               Xt |-> Transform(predictor'.state.prep, X_train)])
    /\ pipePc' = "score_train"
    /\ UNCHANGED <<y_test_pred, scores>>

\* print("Train score:", predictor.score(X_train, y_train))
ScoreTrain ==
    /\ pipePc = "score_train"
    /\ LET r == PipelineScore(predictor, X_train, y_train)
       IN /\ predictor' = r.est
          /\ scores' = Append(scores, [label |-> "Train score", value |-> r.score])
          /\ calls' = Append(calls, [op |-> "score"] @@ r.call)
    /\ pipePc' = "predict"
    /\ UNCHANGED y_test_pred

\* y_test_pred = predictor.predict(X_test)
Predict ==
    /\ pipePc = "predict"
    /\ ~HasUnknown(predictor.state.prep, X_test)
    /\ LET r == PipelinePredict(predictor, X_test)
       IN /\ predictor' = r.est
          /\ y_test_pred' = r.pred
          /\ calls' = Append(calls, [op |-> "predict"] @@ r.call)
    /\ pipePc' = "score_test"
    /\ UNCHANGED scores

\* a test row of a class or sex the training rows do not have: ValueError
PredictRaises ==
    /\ pipePc = "predict"
    /\ HasUnknown(predictor.state.prep, X_test)
    /\ pipePc' = "error"
    /\ UNCHANGED <<predictor, y_test_pred, scores, calls>>

\* print("* Original test score:", predictor.score(X_test, y_test))
ScoreTest ==
    /\ pipePc = "score_test"
    /\ LET r == PipelineScore(predictor, X_test, y_test)
       IN /\ predictor' = r.est
          /\ scores' = Append(scores, [label |-> "Original test score", value |-> r.score])
          /\ calls' = Append(calls, [op |-> "score"] @@ r.call)
    /\ pipePc' = "done"
    /\ UNCHANGED y_test_pred

\* the rotations of 1..n: the permutations the pipeline's tables are split by
Rotations(n) == {[i \in 1..n |-> ((i + k - 1) % n) + 1] : k \in 0..(n - 1)}

\* The tables as cell 3 leaves them, for a table in which every column of the
\* pipeline has an observed value among the training rows.
InitPipe ==
    /\ IdleMetrics /\ IdlePipe /\ IdleCV /\ IdleSearch /\ IdleRun
    /\ splitPc = "done"
    /\ \E n \in 2..MaxRows : \E s \in [1..n -> {0, 1}] : \E perm \in Rotations(n) :
          /\ titanic = [i \in 1..n |-> Passenger(i, s[i])]
          /\ titanic_X = DropSurvived(titanic)
          /\ titanic_y = ColSurvived(titanic)
          /\ LET r == TrainTestSplit(titanic_X, titanic_y, perm)
             IN /\ X_train = r.X_train /\ X_test = r.X_test
                /\ y_train = r.y_train /\ y_test = r.y_test
          /\ \A c \in {"pclass", "sex", "age"} : Observed(X_train, c) # {}

NextPipe ==
    \/ Construct /\ UNCHANGED <<splitVars, metVars, cvVars, searchVars, runVars>>
    \/ Fit /\ UNCHANGED <<splitVars, metVars, cvVars, searchVars, runVars>>
    \/ ScoreTrain /\ UNCHANGED <<splitVars, metVars, cvVars, searchVars, runVars>>
    \/ Predict /\ UNCHANGED <<splitVars, metVars, cvVars, searchVars, runVars>>
    \/ PredictRaises /\ UNCHANGED <<splitVars, metVars, cvVars, searchVars, runVars>>
    \/ ScoreTest /\ UNCHANGED <<splitVars, metVars, cvVars, searchVars, runVars>>

SpecPipe == InitPipe /\ [][NextPipe]_vars

\* the mean of the observed training ages, as the pair (sum, count)
TrainAgeSum == SumOver(X_train, "age", Observed(X_train, "age"))
TrainAgeCount == Cardinality(Observed(X_train, "age"))

\* C2: every call of fit, score and predict transforms its table the same way (only
\* pclass, sex and age are kept, in that order, a missing class or sex becomes the
\* most frequent training value, a missing age the mean training age, class and sex
\* are one-hot encoded against the training categories), with the values learned
\* from the training rows at fit time, also on X_test; and score and predict leave
\* the fitted state as fit produced it.
C2_ConsistentPreprocessing ==
    pipePc \in {"score_train", "predict", "score_test", "done", "error"} =>
        /\ predictor = PipelineFit([params |-> DefaultParams], X_train, y_train)
        /\ \A k \in DOMAIN calls :
              LET c == calls[k] IN
              /\ c.prep = calls[1].prep
              /\ calls[1].op = "fit" /\ calls[1].X = X_train
              /\ \A i \in DOMAIN c.X :
                    LET f == c.Xt[i].feats
                        np == Len(c.prep.cat_pclass) - 1
                        ns == Len(c.prep.cat_sex) - 1
                        pc == IF c.X[i].pclass = NA THEN MostFrequent(X_train, "pclass")
                              ELSE c.X[i].pclass
                        sx == IF c.X[i].sex = NA THEN MostFrequent(X_train, "sex")
                              ELSE c.X[i].sex
                    IN /\ Len(f) = np + ns + 1
                       /\ Range(c.prep.cat_pclass) = {Impute(X_train[j].pclass, c.prep.fill_pclass) : j \in DOMAIN X_train}
                       /\ \A j \in 1..np : (f[j] = 1) <=> (pc = c.prep.cat_pclass[j + 1])
                       /\ \A j \in 1..ns : (f[np + j] = 1) <=> (sx = c.prep.cat_sex[j + 1])
                       /\ IF c.X[i].age = NaN
                          THEN f[np + ns + 1].num * TrainAgeCount = TrainAgeSum * f[np + ns + 1].den
                          ELSE f[np + ns + 1].num = c.X[i].age * f[np + ns + 1].den

C2_Witness ==
    /\ pipePc = "done"
    /\ \E i \in DOMAIN X_test : X_test[i].age = NaN
    /\ \E i \in DOMAIN X_train : X_train[i].age = NaN
    /\ calls[Len(calls)].X = X_test
    /\ calls[Len(calls)].prep = FitPrep(X_train)

----------------------------------------------------------------------------
(* Cross-validation splits.  cross_val_score(cv=10) and the searches (cv=5) *)
(* pass an integer cv with a classifier and a binary target: the splitter   *)
(* is StratifiedKFold(n_splits=cv), without shuffling.                      *)

CvSplits == 10
SearchSplits == 5

\* the classes encoded in the order of their first appearance in y
Encoded(Y) == [i \in DOMAIN Y |-> IF Y[i].survived = Y[1].survived THEN 0 ELSE 1]

ClassCount(Y, c) == Cardinality({i \in DOMAIN Y : Encoded(Y)[i] = c})

\* the class at (0-based) position p of the sorted encoded target
SortedClass(Y, p) == IF p < ClassCount(Y, 0) THEN 0 ELSE 1

\* allocation[f][c]: how many samples of class c test fold f (0-based) takes: the
\* count of c at the positions f, f + k, f + 2k, ... of the sorted target
Allocation(Y, k, f, c) ==
    Cardinality({p \in 0..(Len(Y) - 1) : p % k = f /\ SortedClass(Y, p) = c})

\* the rank of sample i among the samples of its class, from 1
RankInClass(Y, i) ==
    Cardinality({j \in 1..i : Encoded(Y)[j] = Encoded(Y)[i]})

\* the samples of a class take the folds 0, 1, ... in order, each fold as many
\* samples as it is allocated
TestFoldOf(Y, k, i) ==
    LET c == Encoded(Y)[i]
        r == RankInClass(Y, i)
        upto(f) == SumSeq([g \in 1..(f + 1) |-> Allocation(Y, k, g - 1, c)])
    IN CHOOSE f \in 0..(k - 1) : upto(f) >= r /\ (f = 0 \/ upto(f - 1) < r)

\* "n_splits cannot be greater than the number of members in each class"
CanSplit(Y, k) == \E c \in {0, 1} : ClassCount(Y, c) >= k

TestRows(Y, k, f) == {Y[i].row : i \in {j \in DOMAIN Y : TestFoldOf(Y, k, j) = f}}

TrainRowsKeepingTestFold(Y, k, f) == {Y[i].row : i \in DOMAIN Y}

TrainRows(Y, k, f) == {Y[i].row : i \in {j \in DOMAIN Y : TestFoldOf(Y, k, j) # f}}

\* one fit-and-score per split: a clone of the estimator is fitted on the training
\* rows of the split and scored on its test rows
FoldEvals(what, Y, k) ==
    [f \in 1..k |->
        [what |-> what, fold |-> f, fit |-> TrainRows(Y, k, f - 1),
         score |-> TestRows(Y, k, f - 1)]]

----------------------------------------------------------------------------
(* The rows behind every score of the notebook. *)

\* predictor.fit(X_train, y_train)
FitRows ==
    /\ cvPc = "fit"
    /\ evals' = Append(evals, [what |-> "fit", fold |-> 0, fit |-> RowsOf(X_train), score |-> {}])
    /\ cvPc' = "score_train"

\* print("Train score:", predictor.score(X_train, y_train))
TrainScoreRows ==
    /\ cvPc = "score_train"
    /\ evals' = Append(evals, [what |-> "Train score", fold |-> 0,
                               fit |-> evals[1].fit, score |-> RowsOf(X_train)])
    /\ cvPc' = "cross_val"

\* cross_val_score(predictor, X_train, y_train, cv=10)
CrossValScore ==
    /\ cvPc = "cross_val"
    /\ CanSplit(y_train, CvSplits)
    /\ evals' = evals \o FoldEvals("cross_val_score", y_train, CvSplits)
    /\ cvPc' = "search"

CrossValRaises ==
    /\ cvPc = "cross_val"
    /\ ~CanSplit(y_train, CvSplits)
    /\ cvPc' = "error"
    /\ UNCHANGED evals

\* clf.fit(X_train, y_train) of GridSearchCV / RandomizedSearchCV (cv=5): every
\* candidate is evaluated on the same five splits, then the best is fitted on all
\* the training rows
SearchRows ==
    /\ cvPc = "search"
    /\ CanSplit(y_train, SearchSplits)
    /\ evals' = evals \o FoldEvals("search", y_train, SearchSplits)
                      \o <<[what |-> "refit", fold |-> 0, fit |-> RowsOf(X_train), score |-> {}]>>
    /\ cvPc' = "score_test"

\* print("* Original test score:", predictor.score(X_test, y_test))
\* print("* ...SearchCV test score:", clf.best_estimator_.score(X_test, y_test))
TestScoreRows ==
    /\ cvPc = "score_test"
    /\ evals' = evals \o
          <<[what |-> "Original test score", fold |-> 0, fit |-> evals[1].fit,
             score |-> RowsOf(X_test)],
            [what |-> "SearchCV test score", fold |-> 0, fit |-> evals[Len(evals)].fit,
             score |-> RowsOf(X_test)]>>
    /\ cvPc' = "done"

\* The tables as cell 3 leaves them: the first n_test rows of the file are the test
\* rows, the remaining ones the training rows.
InitCV ==
    /\ IdleMetrics /\ IdlePipe /\ IdleCV /\ IdleSearch /\ IdleRun
    /\ splitPc = "done"
    /\ \E N \in CvSplits..MaxTable : \E s \in [1..NTrain(N) -> {0, 1}] :
          LET nt == NTest(N)
          IN /\ titanic = [i \in 1..N |-> Passenger(i, IF i <= nt THEN 0 ELSE s[i - nt])]
             /\ titanic_X = DropSurvived(titanic)
             /\ titanic_y = ColSurvived(titanic)
             /\ X_test = SubSeq(titanic_X, 1, nt) /\ X_train = SubSeq(titanic_X, nt + 1, N)
             /\ y_test = SubSeq(titanic_y, 1, nt) /\ y_train = SubSeq(titanic_y, nt + 1, N)

NextCV ==
    \/ FitRows /\ UNCHANGED <<splitVars, metVars, pipeVars, searchVars, runVars>>
    \/ TrainScoreRows /\ UNCHANGED <<splitVars, metVars, pipeVars, searchVars, runVars>>
    \/ CrossValScore /\ UNCHANGED <<splitVars, metVars, pipeVars, searchVars, runVars>>
    \/ CrossValRaises /\ UNCHANGED <<splitVars, metVars, pipeVars, searchVars, runVars>>
    \/ SearchRows /\ UNCHANGED <<splitVars, metVars, pipeVars, searchVars, runVars>>
    \/ TestScoreRows /\ UNCHANGED <<splitVars, metVars, pipeVars, searchVars, runVars>>

SpecCV == InitCV /\ [][NextCV]_vars

Scored == {k \in DOMAIN evals : evals[k].score # {}}

FoldsPartition(what, k) ==
    LET E == {j \in DOMAIN evals : evals[j].what = what} IN
    E # {} =>
        /\ Cardinality(E) = k
        /\ \A r \in RowsOf(X_train) : Cardinality({j \in E : r \in evals[j].score}) = 1
        /\ \A j \in E : evals[j].score \cup evals[j].fit = RowsOf(X_train)

\* C5 as stated: no score of the notebook is computed on rows the scored model was
\* fitted on, and every training row is scored in exactly one fold.
C5_NeverScoredOnTrainingRows ==
    /\ \A k \in Scored : evals[k].fit \cap evals[k].score = {}
    /\ FoldsPartition("cross_val_score", CvSplits)
    /\ FoldsPartition("search", SearchSplits)

\* C5 amended: in every fold of cross_val_score and of the searches, and for the test
\* scores, the scored rows are disjoint from the fitted rows, and every training row
\* is scored in exactly one fold; the "Train score" of cell 7 is the one score
\* computed on the very rows the model was fitted on.
C5_OnlyTrainScoreOnTrainingRows ==
    /\ \A k \in Scored :
          IF evals[k].what = "Train score"
          THEN evals[k].score = evals[k].fit
          ELSE evals[k].fit \cap evals[k].score = {}
    /\ FoldsPartition("cross_val_score", CvSplits)
    /\ FoldsPartition("search", SearchSplits)

C5_Witness ==
    /\ cvPc = "done"
    /\ \E i, j \in DOMAIN y_train : y_train[i].survived # y_train[j].survived
    /\ \E k \in DOMAIN evals :
          evals[k].what = "cross_val_score" /\ Cardinality(evals[k].score) = 2
    /\ \E k \in DOMAIN evals : evals[k].what = "search" /\ evals[k].fold = SearchSplits

----------------------------------------------------------------------------
(* Cells 28 and 31 to 35: cross_val_score, GridSearchCV, RandomizedSearchCV. *)
(* The estimators of these cells are fitted on the 1050 training rows of the *)
(* real table; this part of the model keeps, of a fitted estimator, its      *)
(* hyperparameters and the data it was fitted on, and takes the score of an  *)
(* estimator on a fold or on the test rows from a table of scores selected   *)
(* by scoreSeed.                                                             *)

MaxSeed == 2        \* score tables
MaxEntropy == 2     \* initial states of the global generator
MaxRuns == 2        \* runs of cell 34

RandomState == 42
NIter == 10

\* parameters of cell 31
GridParameters ==
    [strategy |-> <<"mean", "median">>,
     criterion |-> <<"gini", "entropy">>,
     max_depth |-> <<3, 5, 10>>,
     min_samples_leaf |-> <<5, 10, 20>>]

\* parameters of cell 34: list(range(3, 20)), list(range(1, 100))
RandomParameters ==
    [strategy |-> <<"mean", "median">>,
     criterion |-> <<"gini", "entropy">>,
     max_depth |-> [i \in 1..17 |-> i + 2],
     min_samples_leaf |-> [i \in 1..99 |-> i]]

GridSizeWithoutStrategy(space) ==
    Len(space.criterion) * Len(space.max_depth) * Len(space.min_samples_leaf)

\* len(ParameterGrid(space))
GridSize(space) ==
    Len(space.strategy) * Len(space.criterion) * Len(space.max_depth)
    * Len(space.min_samples_leaf)

\* ParameterGrid(space)[ind], ind from 0: the keys in reverse sorted order, the
\* first one varying fastest:
\*   preprocessing__num__strategy, predictor__min_samples_leaf,
\*   predictor__max_depth, predictor__criterion
ParamAt(space, ind) ==
    LET n1 == Len(space.strategy)
        n2 == Len(space.min_samples_leaf)
        n3 == Len(space.max_depth)
        n4 == Len(space.criterion)
    IN [strategy |-> space.strategy[(ind % n1) + 1],
        min_samples_leaf |-> space.min_samples_leaf[((ind \div n1) % n2) + 1],
        max_depth |-> space.max_depth[((ind \div (n1 * n2)) % n3) + 1],
        criterion |-> space.criterion[((ind \div (n1 * n2 * n3)) % n4) + 1]]

\* list(ParameterGrid(space)): every combination, in index order
GridCandidateList(space) == [i \in 1..GridSize(space) |-> ParamAt(space, i - 1)]

\* the generator: a linear congruential stand-in for numpy's RandomState
NextRng(x) == (75 * x + 74) % 65537
RandInt(x, n) == x % n

CheckRandomStateGlobal(seed, global) == global

\* check_random_state(42): a fresh RandomState(42), whatever the global generator holds
CheckRandomState(seed, global) == seed

\* sample_without_replacement(n_population, n_samples), tracking selection: draw an
\* index, draw again while it is already selected
RECURSIVE SampleWithoutReplacement(_, _, _, _)
SampleWithoutReplacement(x, n_population, n_samples, selected) ==
    IF Len(selected) = n_samples THEN selected
    ELSE LET x1 == NextRng(x)
             j == RandInt(x1, n_population)
         IN IF j \in Range(selected)
            THEN SampleWithoutReplacement(x1, n_population, n_samples, selected)
            ELSE SampleWithoutReplacement(x1, n_population, n_samples, Append(selected, j))

\* list(ParameterSampler(space, n_iter, random_state=42)): all the distributions being
\* lists, n_iter indices of the grid drawn without replacement
SampledCandidateList(space, global) ==
    LET idx == SampleWithoutReplacement(CheckRandomState(RandomState, global),
                                        GridSize(space), NIter, <<>>)
    IN [i \in DOMAIN idx |-> ParamAt(space, idx[i])]

\* the score tables: the accuracy, in units, the data give an estimator with these
\* hyperparameters on a fold (fold 0: on the test rows)
ScoreLevels == 7
ParamCode(p) ==
    (IF p.strategy = "mean" THEN 0 ELSE 1) + (IF p.criterion = "gini" THEN 0 ELSE 3)
    + 2 * p.max_depth + 5 * p.min_samples_leaf
FoldScore(seed, p, f) == ((seed + 1) * ParamCode(p) + (seed + p.max_depth) * f) % ScoreLevels

\* clone(estimator): the hyperparameters, nothing fitted
Clone(e) == [params |-> e.params, fitted |-> FALSE, state |-> None]

\* estimator.set_params(**params)
SetParams(e, p) == [e EXCEPT !.params = p]

\* estimator.fit on the named data
FitOn(e, data) == [e EXCEPT !.fitted = TRUE, !.state = [data |-> data]]

FitAndScoreInPlace(base, p, data) ==
    [base |-> FitOn(SetParams(base, p), data), est |-> FitOn(SetParams(base, p), data)]

\* _fit_and_score(clone(base), ..., parameters=p): the clone is configured and
\* fitted, the estimator passed in is left as it is
FitAndScore(base, p, data) ==
    [base |-> base, est |-> FitOn(SetParams(Clone(base), p), data)]

\* the fold scores are laid out candidate by candidate (reshape(n_candidates,
\* n_splits)); the sum of those of candidate c is its mean times the number of splits
SumScores(results, c) ==
    SumSeq([f \in 1..SearchSplits |-> results[(c - 1) * SearchSplits + f].score])

WorstIndex(results, n) ==
    LET sum == [c \in 1..n |-> SumScores(results, c)]
    IN CHOOSE c \in 1..n :
        /\ \A d \in 1..n : sum[c] <= sum[d]
        /\ \A d \in 1..(c - 1) : sum[d] > sum[c]

\* best_index_: rank_test_score.argmin(), the first candidate of the highest mean
BestIndex(results, n) ==
    LET sum == [c \in 1..n |-> SumScores(results, c)]
    IN CHOOSE c \in 1..n :
        /\ \A d \in 1..n : sum[c] >= sum[d]
        /\ \A d \in 1..(c - 1) : sum[d] < sum[c]

NewSearch(kind) ==
    [kind |-> kind, candidates |-> <<>>, results |-> <<>>, fitted |-> FALSE,
     best_index |-> 0, best_params |-> None, best_estimator |-> None]

----------------------------------------------------------------------------
ConstructPredictor ==
    /\ searchPc = "construct"
    /\ predictor' = [params |-> DefaultParams, fitted |-> FALSE, state |-> None]
    /\ searchPc' = "fit"
    /\ UNCHANGED <<estimator, cv_scores, parameters, clf, samples, np_random, scoreSeed, scores>>

\* predictor.fit(X_train, y_train); the tree draws from the global generator
FitPredictor ==
    /\ searchPc = "fit"
    /\ predictor' = FitOn(predictor, <<"X_train">>)
    /\ np_random' = NextRng(np_random)
    /\ searchPc' = "cross_val"
    /\ UNCHANGED <<estimator, cv_scores, parameters, clf, samples, scoreSeed, scores>>

\* cross_val_score(predictor, X_train, y_train, cv=10), split by split
CrossValFold ==
    /\ searchPc = "cross_val"
    /\ LET f == Len(cv_scores) + 1
           r == FitAndScore(predictor, predictor.params, <<"X_train without fold", CvSplits, f>>)
       IN /\ predictor' = r.base
          /\ estimator' = r.est
          /\ cv_scores' = Append(cv_scores, FoldScore(scoreSeed, r.est.params, f))
          /\ searchPc' = IF f = CvSplits THEN "grid" ELSE "cross_val"
    /\ np_random' = NextRng(np_random)
    /\ UNCHANGED <<parameters, clf, samples, scoreSeed, scores>>

\* parameters = {...}; clf = GridSearchCV(predictor, parameters, cv=5)
GridConstruct ==
    /\ searchPc = "grid"
    /\ parameters' = GridParameters
    /\ clf' = NewSearch("grid")
    /\ searchPc' = "candidates"
    /\ UNCHANGED <<predictor, estimator, cv_scores, samples, np_random, scoreSeed, scores>>

\* parameters = {...}; clf = RandomizedSearchCV(predictor, parameters, cv=5, random_state=42)
RandomConstruct ==
    /\ searchPc = "random"
    /\ parameters' = RandomParameters
    /\ clf' = NewSearch("random")
    /\ searchPc' = "candidates"
    /\ UNCHANGED <<predictor, estimator, cv_scores, samples, np_random, scoreSeed, scores>>

\* clf.fit, GridSearchCV._run_search: the candidates are the whole grid
GridCandidates ==
    /\ searchPc = "candidates" /\ clf.kind = "grid"
    /\ clf' = [clf EXCEPT !.candidates = GridCandidateList(parameters)]
    /\ searchPc' = "evaluate"
    /\ UNCHANGED <<predictor, estimator, cv_scores, parameters, samples, np_random, scoreSeed, scores>>

\* clf.fit, RandomizedSearchCV._run_search: the candidates are sampled
RandomCandidates ==
    /\ searchPc = "candidates" /\ clf.kind = "random"
    /\ clf' = [clf EXCEPT !.candidates = SampledCandidateList(parameters, np_random)]
    /\ samples' = Append(samples, clf'.candidates)
    /\ searchPc' = "evaluate"
    /\ UNCHANGED <<predictor, estimator, cv_scores, parameters, np_random, scoreSeed, scores>>

\* clf.fit, evaluate_candidates: for every candidate, for every split, a clone of
\* the estimator with the candidate's parameters is fitted and scored
EvaluateCandidate ==
    /\ searchPc = "evaluate"
    /\ LET done == Len(clf.results)
           c == (done \div SearchSplits) + 1
           f == (done % SearchSplits) + 1
           r == FitAndScore(predictor, clf.candidates[c], <<"X_train without fold", SearchSplits, f>>)
       IN /\ predictor' = r.base
          /\ estimator' = r.est
          /\ clf' = [clf EXCEPT !.results = Append(@,
                        [cand |-> c, params |-> r.est.params, fold |-> f,
                         score |-> FoldScore(scoreSeed, r.est.params, f)])]
          /\ searchPc' = IF done + 1 = Len(clf.candidates) * SearchSplits
                         THEN "refit" ELSE "evaluate"
    /\ np_random' = NextRng(np_random)
    /\ UNCHANGED <<cv_scores, parameters, samples, scoreSeed, scores>>

\* clf.fit, refit=True: the best candidate's parameters on a clone of the
\* estimator, fitted on all of X_train
Refit ==
    /\ searchPc = "refit"
    /\ LET b == BestIndex(clf.results, Len(clf.candidates))
           r == FitAndScore(predictor, clf.candidates[b], <<"X_train">>)
       IN /\ predictor' = r.base
          /\ clf' = [clf EXCEPT !.fitted = TRUE, !.best_index = b,
                                !.best_params = clf.candidates[b],
                                !.best_estimator = r.est]
    /\ np_random' = NextRng(np_random)
    /\ searchPc' = "print"
    /\ UNCHANGED <<estimator, cv_scores, parameters, samples, scoreSeed, scores>>

\* cells 32 and 35:
\*   print("* Original test score:", predictor.score(X_test, y_test))
\*   print("* ...SearchCV test score:", clf.best_estimator_.score(X_test, y_test))
PrintTestScores ==
    /\ searchPc = "print"
    /\ scores' = scores \o
          <<[label |-> "Original test score", after |-> clf.kind, by |-> predictor,
             value |-> FoldScore(scoreSeed, predictor.params, 0)],
            [label |-> "SearchCV test score", after |-> clf.kind, by |-> clf.best_estimator,
             value |-> FoldScore(scoreSeed, clf.best_estimator.params, 0)]>>
    /\ searchPc' = IF clf.kind = "grid" THEN "random" ELSE "done"
    /\ UNCHANGED <<predictor, estimator, cv_scores, parameters, clf, samples, np_random, scoreSeed>>

\* cell 34 run once more
RunAgain ==
    /\ searchPc = "done"
    /\ Len(samples) < MaxRuns
    /\ searchPc' = "random"
    /\ UNCHANGED <<predictor, estimator, cv_scores, parameters, clf, samples, np_random, scoreSeed, scores>>

InitSearch ==
    /\ IdleSplit /\ IdleMetrics /\ IdleCV /\ IdleRun
    /\ predictor = None /\ y_test_pred = <<>> /\ scores = <<>> /\ calls = <<>>
    /\ pipePc = "construct"
    /\ estimator = None /\ cv_scores = <<>> /\ parameters = None /\ clf = Unbound
    /\ samples = <<>> /\ searchPc = "construct"
    /\ np_random \in 0..MaxEntropy
    /\ scoreSeed \in 0..MaxSeed

SearchOthers == UNCHANGED <<splitVars, metVars, cvVars, runVars, y_test_pred, calls, pipePc>>

NextSearch ==
    \/ ConstructPredictor /\ SearchOthers
    \/ FitPredictor /\ SearchOthers
    \/ CrossValFold /\ SearchOthers
    \/ GridConstruct /\ SearchOthers
    \/ RandomConstruct /\ SearchOthers
    \/ GridCandidates /\ SearchOthers
    \/ RandomCandidates /\ SearchOthers
    \/ EvaluateCandidate /\ SearchOthers
    \/ Refit /\ SearchOthers
    \/ PrintTestScores /\ SearchOthers
    \/ RunAgain /\ SearchOthers

SpecSearch == InitSearch /\ [][NextSearch]_vars

----------------------------------------------------------------------------
\* the grid of cell 31, as the set of its combinations
Cell31Grid ==
    {[strategy |-> s, criterion |-> c, max_depth |-> d, min_samples_leaf |-> l] :
        s \in {"mean", "median"}, c \in {"gini", "entropy"}, d \in {3, 5, 10},
        l \in {5, 10, 20}}

\* the space of cell 34, as the set of its combinations
Cell34Space ==
    {[strategy |-> s, criterion |-> c, max_depth |-> d, min_samples_leaf |-> l] :
        s \in {"mean", "median"}, c \in {"gini", "entropy"}, d \in 3..19, l \in 1..99}

Evaluations(p, f) == {k \in DOMAIN clf.results : clf.results[k].params = p /\ clf.results[k].fold = f}

GridDone == clf.kind = "grid" /\ searchPc \in {"refit", "print", "random"}

\* C3: once the grid search has evaluated its candidates, each of the 36 combinations
\* of the grid of cell 31 has been fitted and scored exactly once on each of the 5
\* splits, and nothing outside the grid has been evaluated.
C3_GridExhaustive ==
    GridDone =>
        /\ Cardinality(Cell31Grid) = 36
        /\ Len(clf.results) = 36 * 5
        /\ \A p \in Cell31Grid : \A f \in 1..5 : Cardinality(Evaluations(p, f)) = 1
        /\ \A k \in DOMAIN clf.results :
              clf.results[k].params \in Cell31Grid /\ clf.results[k].fold \in 1..5

C3_Witness == GridDone /\ clf.fitted /\ Len(clf.results) = 180

\* the sum over the splits of the scores of setting p
SumOfSetting(p) ==
    SumSeq([f \in 1..SearchSplits |->
               clf.results[CHOOSE k \in DOMAIN clf.results :
                              clf.results[k].params = p /\ clf.results[k].fold = f].score])

EvaluatedSettings == {clf.results[k].params : k \in DOMAIN clf.results}

\* C4: once clf.fit has returned, of the grid search as of the randomized search,
\* best_estimator_ carries a setting whose mean cross-validation score is at least
\* that of every evaluated setting, it is fitted with that setting on all of X_train,
\* and test scores of best_estimator_ are printed only of such an estimator.
C4_KeepsBest ==
    /\ clf.fitted =>
          /\ clf.best_estimator.params \in EvaluatedSettings
          /\ \A p \in EvaluatedSettings :
                SumOfSetting(clf.best_estimator.params) >= SumOfSetting(p)
          /\ clf.best_estimator.fitted
          /\ clf.best_estimator.state = [data |-> <<"X_train">>]
          /\ clf.best_params = clf.best_estimator.params
    /\ \A k \in DOMAIN scores :
          scores[k].label = "SearchCV test score" =>
              scores[k].by.fitted /\ scores[k].by.state = [data |-> <<"X_train">>]
    /\ searchPc = "print" => clf.fitted

C4_Witness ==
    /\ clf.fitted /\ clf.kind = "random"
    /\ clf.best_index > 1
    /\ \E p \in EvaluatedSettings : SumOfSetting(p) < SumOfSetting(clf.best_params)
    /\ \E k \in DOMAIN scores : scores[k].label = "SearchCV test score" /\ scores[k].after = "grid"

\* C9: the randomized search evaluates the 10 settings it sampled and no other, each
\* a combination of the values of cell 34, out of 6732 combinations; and every run of
\* the cell samples the same settings in the same order.
C9_RandomizedIncomplete ==
    /\ Cardinality(Cell34Space) = 6732
    /\ \A r \in DOMAIN samples :
          /\ Len(samples[r]) = 10
          /\ \A i \in DOMAIN samples[r] : samples[r][i] \in Cell34Space
          /\ samples[r] = samples[1]
    /\ (clf.kind = "random" /\ searchPc \in {"evaluate", "refit", "print", "done"}) =>
          /\ clf.candidates = samples[Len(samples)]
          /\ EvaluatedSettings \subseteq Range(clf.candidates)
          /\ Cardinality(EvaluatedSettings) <= 10
          /\ Len(clf.results) <= 10 * 5
          /\ (searchPc # "evaluate" => EvaluatedSettings = Range(clf.candidates))

C9_Witness ==
    /\ Len(samples) = 2 /\ searchPc = "done"
    /\ Cardinality(Range(samples[2])) = 10

OriginalScores == {k \in DOMAIN scores : scores[k].label = "Original test score"}

\* C10: cross_val_score and the two searches leave predictor as cells 5 and 6 made it:
\* its hyperparameters are those of cell 5, its fitted state that of
\* predictor.fit(X_train, y_train), and every "Original test score" printed is the
\* same number.
C10_PredictorUnchanged ==
    searchPc \notin {"construct", "fit"} =>
        /\ predictor.params =
              [strategy |-> "mean", criterion |-> "entropy", max_depth |-> 3,
               min_samples_leaf |-> 5]
        /\ predictor.fitted /\ predictor.state = [data |-> <<"X_train">>]
        /\ \A j, k \in OriginalScores :
              scores[j].value = scores[k].value /\ scores[j].by = scores[k].by

C10_Witness ==
    /\ searchPc = "done"
    /\ \E j, k \in OriginalScores : scores[j].after = "grid" /\ scores[k].after = "random"
    /\ clf.best_params # predictor.params
    /\ \E k \in DOMAIN scores : scores[k].value # scores[1].value

----------------------------------------------------------------------------
(* The run of the notebook: the kernel executes the statements of the cells *)
(* one at a time, in the order of the file, and stops at the first one that *)
(* raises (no statement is inside a try, none is repeated in a loop).       *)

CanBeginUnordered(s) == raised.step = 0 /\ s \notin started

\* the kernel starts a statement when nothing is executing and it is the next one
CanBegin(s) == raised.step = 0 /\ running = {} /\ nextStep = s

AfterRaiseRetry(s) == [nextStep |-> s, raised |-> NoRaise]

\* an exception ends the run at the statement that raised it
AfterRaise(s) == [nextStep |-> s, raised |-> [step |-> s]]

Begin(s) ==
    /\ CanBegin(s)
    /\ running' = running \cup {s}
    /\ started' = started \cup {s}
    /\ attempts' = [attempts EXCEPT ![s] = @ + 1]
    /\ UNCHANGED <<nextStep, produced, bound, raised>>

\* the statement returns: its names are bound (and a rebound clf has none of the
\* fitted attributes of the object it replaces)
Return(s) ==
    /\ s \in running
    /\ \A n \in Steps[s].needs : bound[n] # 0
    /\ running' = running \ {s}
    /\ produced' = produced \cup {s}
    /\ bound' = [n \in Names |->
                    IF n \in Steps[s].binds THEN s
                    ELSE IF n \in Steps[s].unbinds THEN 0 ELSE bound[n]]
    /\ nextStep' = s + 1
    /\ UNCHANGED <<started, attempts, raised>>

\* the statement raises: nothing is bound, the error is the library's
Raise(s) ==
    /\ s \in running
    /\ \E e \in Steps[s].raises :
          LET r == AfterRaise(s)
          IN /\ nextStep' = r.nextStep
             /\ raised' = IF r.raised.step = 0 THEN NoRaise ELSE [step |-> r.raised.step, error |-> e]
    /\ running' = running \ {s}
    /\ UNCHANGED <<started, produced, bound, attempts>>

InitRun == IdleSplit /\ IdleMetrics /\ IdlePipe /\ IdleCV /\ IdleSearch /\ IdleRun

RunOthers == UNCHANGED <<splitVars, metVars, pipeVars, cvVars, searchVars>>

NextRun ==
    \/ \E s \in 1..NSteps : Begin(s) /\ RunOthers
    \/ \E s \in 1..NSteps : Return(s) /\ RunOthers
    \/ \E s \in 1..NSteps : Raise(s) /\ RunOthers

SpecRun == InitRun /\ [][NextRun]_vars

StepNamed(name) == CHOOSE s \in 1..NSteps : Steps[s].name = name

PhaseOrder == <<"load", "split", "construct", "fit", "evaluate", "search">>
PhaseNo(s) == CHOOSE k \in DOMAIN PhaseOrder : PhaseOrder[k] = Steps[s].phase

\* C6: the statements run one at a time in the order of the file: at most one is in
\* execution, a statement starts only when all the statements before it have
\* returned, the phases load, split, construct, fit, evaluate, search are entered in
\* this order, predictor.score and predictor.predict start only after predictor.fit
\* has returned, and clf.best_estimator_ is read only after the clf.fit of the same
\* cell has returned.
C6_Sequential ==
    /\ Cardinality(running) <= 1
    /\ \A s \in started : \A t \in 1..(s - 1) : t \in produced /\ t \notin running
    /\ \A s \in started : \A k \in 1..(PhaseNo(s) - 1) :
          \E t \in produced : PhaseNo(t) = k /\ t < s
    /\ \A s \in started :
          Steps[s].name \in {"train_score", "predict", "grid_original_score",
                             "random_original_score"}
              => StepNamed("predictor.fit") \in produced
    /\ \A s \in started :
          Steps[s].name \in {"grid_best_estimator_", "grid_best_score"}
              => StepNamed("grid_fit") \in produced
    /\ \A s \in started :
          Steps[s].name \in {"random_best_estimator_", "random_best_score"}
              => StepNamed("random_fit") \in produced /\ bound["clf.best_estimator_"] = StepNamed("random_fit")

C6_Witness ==
    /\ nextStep = NSteps + 1 /\ produced = 1..NSteps
    /\ bound["clf.best_estimator_"] = StepNamed("random_fit")

\* t reads a name that s binds
ReadsFrom(t, s) == t > s /\ Steps[t].needs \cap Steps[s].binds # {}

RECURSIVE DependsOn(_, _)
DependsOn(t, s) == ReadsFrom(t, s) \/ \E u \in (s + 1)..(t - 1) : ReadsFrom(u, s) /\ DependsOn(t, u)

\* C8: once a statement has raised, the error is one its library call raises, the
\* statement has been started once and no statement was ever started twice (no
\* retry), it has returned nothing and none of its names holds a result of it (no
\* recovery), nothing is in execution, and no statement that depends on it has
\* returned a result.
C8_FailureSurfaces ==
    /\ \A s \in 1..NSteps : attempts[s] <= 1
    /\ raised.step # 0 =>
          /\ raised.error \in Steps[raised.step].raises
          /\ attempts[raised.step] = 1
          /\ raised.step \notin produced
          /\ \A n \in Steps[raised.step].binds : bound[n] # raised.step
          /\ running = {}
          /\ \A t \in produced : ~DependsOn(t, raised.step)
          /\ \A t \in started : t <= raised.step

C8_Witness ==
    /\ raised.step = StepNamed("random_fit")
    /\ bound["clf"] = StepNamed("RandomizedSearchCV")
    /\ bound["clf.best_estimator_"] = 0
    /\ StepNamed("grid_best_score") \in produced

====
